---- MODULE Spec2Model ----
(***************************************************************************)
(* Merkle Search Tree of packages/common/src/repo/mst.ts.                  *)
(*                                                                         *)
(* Keys are the integers 1..MaxKey under their usual order (the source     *)
(* orders strings with >=).  Leaf values are the opaque CIDs 1..MaxVal.    *)
(* The CID of a node is the record [block |-> node]: the block store is    *)
(* content addressed, so equal nodes have equal CIDs and distinct nodes    *)
(* distinct CIDs.  sha256 is an arbitrary fixed function: zerosOf is       *)
(* chosen once, in Init, among all functions from keys to layers.          *)
(* Sequences are 1-based: an index here is the source's index plus one.    *)
(***************************************************************************)
EXTENDS Integers, Sequences, FiniteSets, TLC

MaxKey == 3
MaxLayer == 2
MaxVal == 2
MaxOps == 3
MaxAdds == 4
MaxBuild == 5

Keys == 1..MaxKey
Vals == 1..MaxVal
Layers == 0..MaxLayer

VARIABLES zerosOf, A, B, store, log, last, addedA, addedB, pureA, pureB, alias, nops

vars == <<zerosOf, A, B, store, log, last, addedA, addedB, pureA, pureB, alias, nops>>

\* the null that get returns
Null == 0

----------------------------------------------------------------------------
(* Entries, CIDs and the block store *)

Leaf(k, v) == [key |-> k, val |-> v]

IsLeaf(e) == "key" \in DOMAIN e

IsTree(e) == "block" \in DOMAIN e

\* blockstore.put(node) returns the content address of node
CidOf(node) == [block |-> node]

\* blockstore.get(cid) returns the node stored under cid
BlockOf(cid) == cid.block

\* one blockstore.put: the address returned and the layer of the node put
PutEv(h) == [op |-> "put", cid |-> h.cid, zeros |-> h.zeros]

\* one blockstore.get: the address read and the layer of the handle loaded
GetEv(cid, zeros) == [op |-> "get", cid |-> cid, zeros |-> zeros]

leadingZerosOnHash(key) == zerosOf[key]

spliceIn(array, item, index) ==
  SubSeq(array, 1, index - 1) \o <<item>> \o SubSeq(array, index, Len(array))

MkHandle(cid, node, zeros) == [cid |-> cid, node |-> node, zeros |-> zeros]

\* MST.create persists the empty node (one put)
create(zeros) == MkHandle(CidOf(<<>>), <<>>, zeros)

\* MST.fromData persists node (one put)
fromData(node, zeros) == MkHandle(CidOf(node), node, zeros)

\* as load, with the handle given the layer of the handle above it
loadSameLayer(cid, zeros) == MkHandle(cid, BlockOf(cid), zeros + 1)

\* MST.load with the layer supplied, as every caller in the file does (one
\* get, which the caller logs with GetEv; the store holds every cid a node
\* or a handle refers to, so the get finds its block)
load(cid, zeros) == MkHandle(cid, BlockOf(cid), zeros)

\* this.cid = await this.blockstore.put(this.node)
put(h) == [h EXCEPT !.cid = CidOf(h.node)]

\* as findGtOrEqualLeafIndex, with > for >=
findGtLeafIndex(node, key) ==
  LET S == {i \in 1..Len(node) : IsLeaf(node[i]) /\ node[i].key > key}
  IN IF S = {} THEN Len(node) + 1 ELSE CHOOSE i \in S : \A j \in S : i <= j

\* index of the first leaf whose key is >= key, else one past the end
findGtOrEqualLeafIndex(node, key) ==
  LET S == {i \in 1..Len(node) : IsLeaf(node[i]) /\ node[i].key >= key}
  IN IF S = {} THEN Len(node) + 1 ELSE CHOOSE i \in S : \A j \in S : i <= j

\* node[i] is a subtree pointer (false when i is out of range)
TreeAt(node, i) == i \in 1..Len(node) /\ IsTree(node[i])

\* node[i] is a leaf with this key (false when i is out of range)
LeafAt(node, i, key) == i \in 1..Len(node) /\ IsLeaf(node[i]) /\ node[i].key = key

append(h, entry) == put([h EXCEPT !.node = h.node \o <<entry>>])

prepend(h, entry) == put([h EXCEPT !.node = <<entry>> \o h.node])

----------------------------------------------------------------------------
(* splitAround: left and right are <<>> for null and <<cid>> otherwise *)

RECURSIVE splitAround(_, _)
\* as splitAround, with the two halves built in memory and never put
splitAroundUnsaved(h, key) ==
  LET index == findGtOrEqualLeafIndex(h.node, key)
      leftData == SubSeq(h.node, 1, index - 1)
      rightData == SubSeq(h.node, index, Len(h.node))
  IN IF Len(leftData) = 0
       THEN [left |-> <<>>, right |-> <<h.cid>>, log |-> <<>>]
     ELSE IF Len(rightData) = 0
       THEN [left |-> <<h.cid>>, right |-> <<>>, log |-> <<>>]
     ELSE
       LET left == fromData(leftData, h.zeros)
           right == fromData(rightData, h.zeros)
           prev == leftData[Len(leftData)]
       IN IF IsTree(prev)
            THEN LET prevSubtree == load(prev, h.zeros - 1)
                     prevSplit == splitAround(prevSubtree, key)
                     hasL == Len(prevSplit.left) > 0
                     hasR == Len(prevSplit.right) > 0
                     left2 == IF hasL THEN append(left, prev) ELSE left
                     right2 == IF hasR THEN prepend(right, prev) ELSE right
                 IN [left |-> <<left2.cid>>, right |-> <<right2.cid>>,
                     log |-> <<GetEv(prev, h.zeros - 1)>> \o prevSplit.log
                             \o (IF hasL THEN <<PutEv(left2)>> ELSE <<>>)
                             \o (IF hasR THEN <<PutEv(right2)>> ELSE <<>>)]
            ELSE [left |-> <<left.cid>>, right |-> <<right.cid>>, log |-> <<>>]

splitAround(h, key) ==
  LET index == findGtOrEqualLeafIndex(h.node, key)
      leftData == SubSeq(h.node, 1, index - 1)
      rightData == SubSeq(h.node, index, Len(h.node))
  IN IF Len(leftData) = 0
       THEN [left |-> <<>>, right |-> <<h.cid>>, log |-> <<>>]
     ELSE IF Len(rightData) = 0
       THEN [left |-> <<h.cid>>, right |-> <<>>, log |-> <<>>]
     ELSE
       LET left == fromData(leftData, h.zeros)
           right == fromData(rightData, h.zeros)
           prev == leftData[Len(leftData)]
           log0 == <<PutEv(left), PutEv(right)>>
       IN IF IsTree(prev)
            THEN LET prevSubtree == load(prev, h.zeros - 1)
                     prevSplit == splitAround(prevSubtree, key)
                     hasL == Len(prevSplit.left) > 0
                     hasR == Len(prevSplit.right) > 0
                     left2 == IF hasL THEN append(left, prev) ELSE left
                     right2 == IF hasR THEN prepend(right, prev) ELSE right
                 IN [left |-> <<left2.cid>>, right |-> <<right2.cid>>,
                     log |-> log0 \o <<GetEv(prev, h.zeros - 1)>> \o prevSplit.log
                             \o (IF hasL THEN <<PutEv(left2)>> ELSE <<>>)
                             \o (IF hasR THEN <<PutEv(right2)>> ELSE <<>>)]
            ELSE [left |-> <<left.cid>>, right |-> <<right.cid>>, log |-> log0]

----------------------------------------------------------------------------
(* add *)

\* the result of a call that throws: the handle as the throw leaves it
Thrown(h, err, lg) == [err |-> err, h |-> h, ret |-> <<>>, log |-> lg]

\* as ReturnPut, with the node put before the store calls made below it
ReturnPutFirst(h, lg) ==
  LET h2 == put(h)
  IN [err |-> "", h |-> h2, ret |-> <<h2.cid>>, log |-> <<PutEv(h2)>> \o lg]

\* the result of a call that ends with return this.put()
ReturnPut(h, lg) ==
  LET h2 == put(h)
  IN [err |-> "", h |-> h2, ret |-> <<h2.cid>>, log |-> lg \o <<PutEv(h2)>>]

RECURSIVE wrapLayers(_, _, _, _, _)
\* as wrapLayers, with the loop running while i <= extraLayersToAdd
wrapLayersInclusive(left, right, i, extraLayersToAdd, zeros) ==
  IF i <= extraLayersToAdd
    THEN LET leftNode == fromData(left, zeros + i)
             rightNode == fromData(right, zeros + i)
             left2 == IF Len(left) > 0 THEN <<leftNode.cid>> ELSE left
             right2 == IF Len(right) > 0 THEN <<rightNode.cid>> ELSE right
             rest == wrapLayers(left2, right2, i + 1, extraLayersToAdd, zeros)
         IN [left |-> rest.left, right |-> rest.right,
             log |-> (IF Len(left) > 0 THEN <<PutEv(leftNode)>> ELSE <<>>)
                     \o (IF Len(right) > 0 THEN <<PutEv(rightNode)>> ELSE <<>>)
                     \o rest.log]
    ELSE [left |-> left, right |-> right, log |-> <<>>]

\* the loop of add's higher-layer branch: wraps each non-null side in a
\* single-entry node at layers zeros+1 .. keyZeros-1
wrapLayers(left, right, i, extraLayersToAdd, zeros) ==
  IF i < extraLayersToAdd
    THEN LET leftNode == fromData(left, zeros + i)
             rightNode == fromData(right, zeros + i)
             left2 == IF Len(left) > 0 THEN <<leftNode.cid>> ELSE left
             right2 == IF Len(right) > 0 THEN <<rightNode.cid>> ELSE right
             rest == wrapLayers(left2, right2, i + 1, extraLayersToAdd, zeros)
         IN [left |-> rest.left, right |-> rest.right,
             log |-> (IF Len(left) > 0 THEN <<PutEv(leftNode)>> ELSE <<>>)
                     \o (IF Len(right) > 0 THEN <<PutEv(rightNode)>> ELSE <<>>)
                     \o rest.log]
    ELSE [left |-> left, right |-> right, log |-> <<>>]

RECURSIVE add(_, _, _)
add(h, key, value) ==
  LET keyZeros == leadingZerosOnHash(key)
      index == findGtOrEqualLeafIndex(h.node, key)
  IN IF keyZeros = h.zeros THEN
       \* it belongs in this layer
       IF LeafAt(h.node, index, key)
         THEN Thrown(h, "KeyExists", <<>>)
       ELSE IF ~TreeAt(h.node, index - 1)
         THEN ReturnPut([h EXCEPT !.node = spliceIn(h.node, Leaf(key, value), index)], <<>>)
       ELSE
         LET prevNode == h.node[index - 1]
             subTree == load(prevNode, h.zeros - 1)
             splitSubTree == splitAround(subTree, key)
             newNode == SubSeq(h.node, 1, index - 2) \o splitSubTree.left
                        \o <<Leaf(key, value)>> \o splitSubTree.right
                        \o SubSeq(h.node, index, Len(h.node))
         IN ReturnPut([h EXCEPT !.node = newNode],
                      <<GetEv(prevNode, h.zeros - 1)>> \o splitSubTree.log)
     ELSE IF keyZeros < h.zeros THEN
       \* it belongs on a lower layer
       IF TreeAt(h.node, index - 1)
         THEN LET prevNode == h.node[index - 1]
                  subTree == load(prevNode, h.zeros - 1)
                  sub == add(subTree, key, value)
              IN IF sub.err # ""
                   THEN Thrown(h, sub.err, <<GetEv(prevNode, h.zeros - 1)>> \o sub.log)
                   ELSE ReturnPut([h EXCEPT !.node[index - 1] = sub.ret[1]],
                                  <<GetEv(prevNode, h.zeros - 1)>> \o sub.log)
         ELSE LET subTree == create(h.zeros - 1)
                  sub == add(subTree, key, value)
              IN IF sub.err # ""
                   THEN Thrown(h, sub.err, <<PutEv(subTree)>> \o sub.log)
                   ELSE ReturnPut([h EXCEPT !.node = spliceIn(h.node, sub.ret[1], index)],
                                  <<PutEv(subTree)>> \o sub.log)
     ELSE
       \* it belongs on a higher layer
       LET split == splitAround(h, key)
           extraLayersToAdd == keyZeros - h.zeros
           wrapped == wrapLayers(split.left, split.right, 1, extraLayersToAdd, h.zeros)
           newNode == wrapped.left \o <<Leaf(key, value)>> \o wrapped.right
       IN ReturnPut([h EXCEPT !.node = newNode, !.zeros = keyZeros],
                    split.log \o wrapped.log)

----------------------------------------------------------------------------
(* get, edit, walk *)

RECURSIVE get(_, _)
get(h, key) ==
  LET index == findGtOrEqualLeafIndex(h.node, key)
  IN IF LeafAt(h.node, index, key)
       THEN h.node[index].val
     ELSE IF TreeAt(h.node, index - 1)
       THEN get(load(h.node[index - 1], h.zeros - 1), key)
     ELSE Null

\* the nesting of get calls: 1 for the call itself, 1 more for each descent
RECURSIVE getDepth(_, _)
getDepth(h, key) ==
  LET index == findGtOrEqualLeafIndex(h.node, key)
  IN IF LeafAt(h.node, index, key)
       THEN 1
     ELSE IF TreeAt(h.node, index - 1)
       THEN 1 + getDepth(load(h.node[index - 1], h.zeros - 1), key)
     ELSE 1

RECURSIVE edit(_, _, _)
\* as edit, writing the value into the leaf at index before comparing its key
editWriteFirst(h, key, value) ==
  LET index == findGtOrEqualLeafIndex(h.node, key)
      h1 == IF index <= Len(h.node) THEN [h EXCEPT !.node[index].val = value] ELSE h
  IN IF LeafAt(h.node, index, key)
       THEN ReturnPut(h1, <<>>)
     ELSE IF TreeAt(h.node, index - 1)
       THEN LET prev == h.node[index - 1]
                subTree == load(prev, h.zeros - 1)
                sub == edit(subTree, key, value)
            IN IF sub.err # ""
                 THEN Thrown(h1, sub.err, <<GetEv(prev, h.zeros - 1)>> \o sub.log)
                 ELSE ReturnPut([h1 EXCEPT !.node[index - 1] = sub.ret[1]],
                                <<GetEv(prev, h.zeros - 1)>> \o sub.log)
     ELSE Thrown(h1, "KeyNotFound", <<>>)

edit(h, key, value) ==
  LET index == findGtOrEqualLeafIndex(h.node, key)
  IN IF LeafAt(h.node, index, key)
       THEN ReturnPut([h EXCEPT !.node[index].val = value], <<>>)
     ELSE IF TreeAt(h.node, index - 1)
       THEN LET prev == h.node[index - 1]
                subTree == load(prev, h.zeros - 1)
                sub == edit(subTree, key, value)
            IN IF sub.err # ""
                 THEN Thrown(h, sub.err, <<GetEv(prev, h.zeros - 1)>> \o sub.log)
                 ELSE ReturnPut([h EXCEPT !.node[index - 1] = sub.ret[1]],
                                <<GetEv(prev, h.zeros - 1)>> \o sub.log)
     ELSE Thrown(h, "KeyNotFound", <<>>)

\* the visitor's calls in order: <<level, key>>, key Null for a subtree pointer
RECURSIVE walk(_)
RECURSIVE walkFrom(_, _)
walkFrom(h, i) ==
  IF i > Len(h.node) THEN <<>>
  ELSE LET entry == h.node[i]
       IN (IF IsTree(entry)
             THEN <<<<h.zeros, Null>>>> \o walk(load(entry, h.zeros - 1))
             ELSE <<<<h.zeros, entry.key>>>>)
          \o walkFrom(h, i + 1)

walk(h) == walkFrom(h, 1)

\* the nesting of walk calls: 1 for the call itself, 1 more for each descent
RECURSIVE walkDepth(_)
walkDepth(h) ==
  LET below == {walkDepth(load(h.node[i], h.zeros - 1))
                : i \in {j \in 1..Len(h.node) : IsTree(h.node[j])}}
  IN 1 + (IF below = {} THEN 0 ELSE CHOOSE d \in below : \A e \in below : e <= d)

----------------------------------------------------------------------------
(* mergeIn: toMerge wins on conflicts *)

RECURSIVE mergeIn(_, _)
RECURSIVE mergeLoop(_, _, _, _)
\* the for loop from entry i of toMerge.node on; lastIndex is 1-based
mergeLoop(h, toMerge, i, lastIndex) ==
  IF i > Len(toMerge.node) THEN [h |-> h, log |-> <<>>]
  ELSE
    LET entry == toMerge.node[i]
    IN IF IsLeaf(entry)
         THEN LET li == findGtOrEqualLeafIndex(h.node, entry.key)
                  h2 == IF LeafAt(h.node, li, entry.key)
                          THEN [h EXCEPT !.node[li] = entry]
                          ELSE [h EXCEPT !.node = spliceIn(h.node, entry, li)]
              IN mergeLoop(h2, toMerge, i + 1, li + 1)
       ELSE IF ~TreeAt(h.node, lastIndex)
         THEN mergeLoop([h EXCEPT !.node = spliceIn(h.node, entry, lastIndex)],
                        toMerge, i + 1, lastIndex + 1)
       ELSE IF h.node[lastIndex] # entry
         THEN LET nextEntryInNode == h.node[lastIndex]
                  nodeChild == load(nextEntryInNode, h.zeros - 1)
                  toMergeChild == load(entry, h.zeros - 1)
                  merged == mergeIn(nodeChild, toMergeChild)
                  rest == mergeLoop([h EXCEPT !.node[lastIndex] = merged.ret[1]],
                                    toMerge, i + 1, lastIndex + 1)
              IN [h |-> rest.h,
                  log |-> <<GetEv(nextEntryInNode, h.zeros - 1), GetEv(entry, h.zeros - 1)>> \o merged.log \o rest.log]
       ELSE mergeLoop(h, toMerge, i + 1, lastIndex + 1)

mergeIn(h, toMerge) ==
  LET done == mergeLoop(h, toMerge, 1, 1)
  IN ReturnPut(done.h, done.log)

----------------------------------------------------------------------------
(* The state machine: two handles A and B over one block store *)

Puts(lg) == {lg[i].cid : i \in {j \in 1..Len(lg) : lg[j].op = "put"}}

RootLeafKeys(node) == {node[i].key : i \in {j \in 1..Len(node) : IsLeaf(node[j])}}

NoneAdded == [k \in Keys |-> Null]

\* the last call: its receiver before the call, and whether that receiver was
\* then a tree built by add calls with distinct keys alone
Call(op, on, key, val, r, pre, prePure) ==
  [op |-> op, on |-> on, key |-> key, val |-> val, err |-> r.err, ret |-> r.ret,
   pre |-> pre, prePure |-> prePure]

Init ==
  /\ zerosOf \in [Keys -> Layers]
  /\ A = create(0)
  /\ B = create(0)
  /\ store = {CidOf(<<>>)}
  /\ log = <<>>
  /\ last = [op |-> "create", on |-> "A", key |-> Null, val |-> Null, err |-> "",
             ret |-> <<>>, pre |-> create(0), prePure |-> TRUE]
  /\ addedA = NoneAdded
  /\ addedB = NoneAdded
  /\ pureA = TRUE
  /\ pureB = TRUE
  /\ alias = {}
  /\ nops = 0

\* A.add(key, value)
AddA(key, value) ==
  \E r \in {add(A, key, value)} :
     /\ A' = r.h
     /\ store' = store \cup Puts(r.log)
     /\ log' = r.log
     /\ last' = Call("add", "A", key, value, r, A, pureA)
     /\ addedA' = IF r.err = "" THEN [addedA EXCEPT ![key] = value] ELSE addedA
     /\ pureA' = (pureA /\ (r.err # "" \/ addedA[key] = Null))
     \* the higher-layer branch builds a new node array without the old leaf tuples
     /\ alias' = IF r.h.zeros # A.zeros THEN {} ELSE alias
     /\ nops' = IF r.err = "" THEN nops + 1 ELSE nops
     /\ UNCHANGED <<zerosOf, B, addedB, pureB>>

\* B.add(key, value)
AddB(key, value) ==
  \E r \in {add(B, key, value)} :
     /\ B' = r.h
     /\ store' = store \cup Puts(r.log)
     /\ log' = r.log
     /\ last' = Call("add", "B", key, value, r, B, pureB)
     /\ addedB' = IF r.err = "" THEN [addedB EXCEPT ![key] = value] ELSE addedB
     /\ pureB' = (pureB /\ (r.err # "" \/ addedB[key] = Null))
     /\ alias' = IF r.h.zeros # B.zeros THEN {} ELSE alias
     /\ nops' = IF r.err = "" THEN nops + 1 ELSE nops
     /\ UNCHANGED <<zerosOf, A, addedA, pureA>>

\* A.edit(key, value).  this.node[index][1] = value writes into the leaf tuple;
\* when mergeIn took that tuple from B.node, B.node holds the same tuple.
EditA(key, value) ==
  \E r \in {edit(A, key, value)} :
  LET index == findGtOrEqualLeafIndex(A.node, key)
      shared == LeafAt(A.node, index, key) /\ key \in alias
      j == findGtOrEqualLeafIndex(B.node, key)
  IN /\ A' = r.h
     /\ B' = IF shared THEN [B EXCEPT !.node[j].val = value] ELSE B
     /\ store' = store \cup Puts(r.log)
     /\ log' = r.log
     /\ last' = Call("edit", "A", key, value, r, A, pureA)
     /\ addedA' = IF r.err = "" THEN [addedA EXCEPT ![key] = value] ELSE addedA
     /\ pureA' = (pureA /\ r.err # "")
     /\ pureB' = (pureB /\ B' = B)
     /\ nops' = IF r.err = "" THEN nops + 1 ELSE nops
     /\ UNCHANGED <<zerosOf, addedB, alias>>

\* A.mergeIn(B); the precondition is that both are at the same layer
MergeAB ==
  \E r \in {mergeIn(A, B)} :
     /\ A.zeros = B.zeros
     /\ A' = r.h
     /\ store' = store \cup Puts(r.log)
     /\ log' = r.log
     /\ last' = Call("mergeIn", "A", Null, Null, r, A, pureA)
     /\ addedA' = [k \in Keys |-> IF addedB[k] # Null THEN addedB[k] ELSE addedA[k]]
     /\ pureA' = (pureA /\ r.h = A)
     \* every leaf tuple of B.node is now an element of A.node
     /\ alias' = RootLeafKeys(B.node)
     /\ nops' = IF r.h # A THEN nops + 1 ELSE nops
     /\ UNCHANGED <<zerosOf, B, addedB, pureB>>

\* A.mergeIn(T) where T = MST.load(blockstore, A.cid, A.zeros)
MergeSelf ==
  LET T == load(A.cid, A.zeros)
  IN \E r \in {mergeIn(A, T)} :
     /\ A' = r.h
     /\ store' = store \cup Puts(r.log)
     /\ log' = <<GetEv(A.cid, A.zeros)>> \o r.log
     /\ last' = Call("mergeSelf", "A", Null, Null, r, A, pureA)
     /\ pureA' = (pureA /\ r.h = A)
     \* the leaf tuples of T.node are fresh and replace those of A.node
     /\ alias' = alias \ RootLeafKeys(T.node)
     /\ nops' = IF r.h # A THEN nops + 1 ELSE nops
     /\ UNCHANGED <<zerosOf, B, addedA, addedB, pureB>>

\* nops counts the calls that changed a handle; each specification caps it
Below(cap) == nops < cap

Next ==
  \/ \E key \in Keys, value \in Vals : Below(MaxOps) /\ AddA(key, value)
  \/ \E key \in Keys, value \in Vals : Below(MaxOps) /\ AddB(key, value)
  \/ \E key \in Keys, value \in Vals : Below(MaxOps) /\ EditA(key, value)
  \/ Below(MaxOps) /\ MergeAB
  \/ Below(MaxOps) /\ MergeSelf

Spec == Init /\ [][Next]_vars

\* one tree built by add calls alone
NextAdd == \E key \in Keys, value \in Vals : Below(MaxAdds) /\ AddA(key, value)

SpecAdd == Init /\ [][NextAdd]_vars

\* two trees built by add calls with distinct keys, then A.mergeIn(B)
NextMerge ==
  \/ \E key \in Keys, value \in Vals :
       Below(MaxBuild) /\ pureA /\ addedA[key] = Null /\ AddA(key, value)
  \/ \E key \in Keys, value \in Vals :
       Below(MaxBuild) /\ pureA /\ addedB[key] = Null /\ AddB(key, value)
  \/ pureA /\ pureB /\ MergeAB

SpecMerge == Init /\ [][NextMerge]_vars

----------------------------------------------------------------------------
(* What the claims speak of *)

\* the nodes reachable from node through subtree pointers, each with its layer
RECURSIVE Reach(_, _)
Reach(node, zeros) ==
  {<<node, zeros>>}
  \cup UNION {Reach(BlockOf(node[i]), zeros - 1) : i \in {j \in 1..Len(node) : IsTree(node[j])}}

\* the keys of the leaves of node and of its subtrees
RECURSIVE KeysUnder(_)
KeysUnder(node) ==
  UNION {IF IsLeaf(node[i]) THEN {node[i].key} ELSE KeysUnder(BlockOf(node[i]))
         : i \in 1..Len(node)}

AddedKeys(added) == {k \in Keys : added[k] # Null}

\* the orderings of a set of keys
Orderings(S) ==
  {s \in [1..Cardinality(S) -> S] : \A i, j \in 1..Cardinality(S) : s[i] = s[j] => i = j}

\* the handle after add is called for order[i], ..., order[n] with the values of added
RECURSIVE BuildFrom(_, _, _, _)
BuildFrom(h, order, added, i) ==
  IF i > Len(order) THEN h
  ELSE BuildFrom(add(h, order[i], added[order[i]]).h, order, added, i + 1)

\* C1: Determinism.  A tree built from create by adding a set of pairs with
\* distinct keys in one order has the root CID of the tree built by adding
\* the same pairs in any other order.
C1_Determinism ==
  pureA => \A order \in Orderings(AddedKeys(addedA)) :
             BuildFrom(create(0), order, addedA, 1).cid = A.cid

\* C2: Round-trip.  After successful adds with distinct keys, get returns the
\* value added for every added key and null for every key never added.
C2_RoundTrip ==
  pureA => \A k \in Keys : get(A, k) = addedA[k]

\* C3: Layer invariant.  Every leaf walk reports at level z has
\* leadingZerosOnHash(key) = z, and every leaf stored in a node reached
\* through d subtree pointers has leadingZerosOnHash(key) = A.zeros - d.
C3_LayerInvariant ==
  /\ \A i \in 1..Len(walk(A)) :
       walk(A)[i][2] # Null => zerosOf[walk(A)[i][2]] = walk(A)[i][1]
  /\ \A nz \in Reach(A.node, A.zeros) :
       \A i \in 1..Len(nz[1]) : IsLeaf(nz[1][i]) => zerosOf[nz[1][i].key] = nz[2]

\* a key below 1 or above MaxKey stands for "unbounded"
LeftLeafKey(node, i) ==
  LET S == {j \in 1..(i - 1) : IsLeaf(node[j])}
  IN IF S = {} THEN 0 ELSE node[CHOOSE j \in S : \A m \in S : m <= j].key

RightLeafKey(node, i) ==
  LET S == {j \in (i + 1)..Len(node) : IsLeaf(node[j])}
  IN IF S = {} THEN MaxKey + 1 ELSE node[CHOOSE j \in S : \A m \in S : j <= m].key

Ordered(node) ==
  /\ \A i, j \in 1..Len(node) :
       (i < j /\ IsLeaf(node[i]) /\ IsLeaf(node[j])) => node[i].key < node[j].key
  /\ \A i \in 1..Len(node) :
       IsTree(node[i]) =>
         \A k \in KeysUnder(BlockOf(node[i])) :
           LeftLeafKey(node, i) < k /\ k < RightLeafKey(node, i)

\* C4: Ordering invariant.  In every node reachable from the root the leaf
\* keys ascend strictly and every key under a subtree pointer lies strictly
\* between the nearest leaf keys to the pointer's left and right.
C4_Ordering ==
  \A nz \in Reach(A.node, A.zeros) : Ordered(nz[1])

NoAdjacentPointers(node) ==
  \A i \in 1..(Len(node) - 1) : ~(IsTree(node[i]) /\ IsTree(node[i + 1]))

\* C5: No consecutive subtree pointers, in any node reachable from the root
\* and in any node the block store holds (the halves splitAround persists).
C5_NoConsecutivePointers ==
  /\ \A nz \in Reach(A.node, A.zeros) : NoAdjacentPointers(nz[1])
  /\ \A c \in store : NoAdjacentPointers(BlockOf(c))

\* C6: Failure kinds.  add fails, with the key-exists error, exactly for the
\* keys already added; edit fails, with the key-not-found error, exactly for
\* the keys never added.
C6_FailureKinds ==
  \A k \in Keys, v \in Vals :
    /\ add(A, k, v).err = (IF addedA[k] # Null THEN "KeyExists" ELSE "")
    /\ edit(A, k, v).err = (IF addedA[k] = Null THEN "KeyNotFound" ELSE "")

\* the receiver of the last call
Receiver == IF last.on = "A" THEN A ELSE B

\* C7: All-or-nothing on failure.  When add fails because the key exists or
\* edit fails because the key is not found, at the root or below it, the
\* handle's cid, node and layer are those it had before the call.
C7_AllOrNothing ==
  last.err # "" => Receiver = last.pre

\* an add that failed below the root, in a subtree it had loaded
C7_Witness ==
  /\ last.op = "add"
  /\ last.err = "KeyExists"
  /\ Len(log) > 0
  /\ Receiver = last.pre

\* C8: Content addressing.  Between operations each handle's cid is the CID
\* of its node, and a successful add, edit or mergeIn returns the cid the
\* handle has after the call.
C8_ContentAddressing ==
  /\ A.cid = CidOf(A.node)
  /\ B.cid = CidOf(B.node)
  /\ (last.op # "create" /\ last.err = "") => last.ret = <<Receiver.cid>>

\* a node with the values of its leaves erased, subtrees included
RECURSIVE Shape(_)
Shape(node) ==
  [i \in 1..Len(node) |->
     IF IsLeaf(node[i]) THEN [key |-> node[i].key]
     ELSE [sub |-> Shape(BlockOf(node[i]))]]

\* C9: Edit preserves shape.  On a tree built by add calls, edit of a key
\* present in the tree succeeds, keeps every key at its node position and
\* layer, and changes the value of that key alone.
C9_EditPreservesShape ==
  pureA =>
    \A k \in KeysUnder(A.node), v \in Vals :
      /\ edit(A, k, v).err = ""
      /\ Shape(edit(A, k, v).h.node) = Shape(A.node)
      /\ edit(A, k, v).h.zeros = A.zeros
      /\ get(edit(A, k, v).h, k) = v
      /\ \A k2 \in Keys \ {k} : get(edit(A, k, v).h, k2) = get(A, k2)

\* C10: Merge idempotence.  Merging into a tree built by add calls a handle
\* loaded from the tree's own root CID and layer returns the tree's root CID
\* and leaves its node unchanged.
C10_MergeIdempotence ==
  /\ (last.op = "mergeSelf" /\ last.prePure) =>
       (last.ret = <<last.pre.cid>> /\ A.node = last.pre.node)
  /\ pureA =>
       /\ mergeIn(A, load(A.cid, A.zeros)).ret = <<A.cid>>
       /\ mergeIn(A, load(A.cid, A.zeros)).h.node = A.node

\* a tree with leaves below its root was merged with itself
C10_Witness ==
  /\ last.op = "mergeSelf"
  /\ last.prePure
  /\ \E i \in 1..Len(last.pre.node) :
       IsTree(last.pre.node[i]) /\ Len(BlockOf(last.pre.node[i])) > 0
  /\ \E i \in 1..Len(last.pre.node) : IsLeaf(last.pre.node[i])
  /\ last.ret = <<last.pre.cid>>

\* a layer-2 root over leaves that walk reports at level 0
C3_Witness ==
  /\ A.zeros >= 2
  /\ \E i \in 1..Len(walk(A)) : walk(A)[i][2] # Null /\ walk(A)[i][1] = 0

\* the values of the leaves with this key in node and in its subtrees
RECURSIVE ValsUnder(_, _)
ValsUnder(node, key) ==
  UNION {IF IsLeaf(node[i])
           THEN (IF node[i].key = key THEN {node[i].val} ELSE {})
           ELSE ValsUnder(BlockOf(node[i]), key)
         : i \in 1..Len(node)}

\* the last call was A.mergeIn(B) on two trees built by add calls
MergedBuilt == last.op = "mergeIn" /\ last.prePure /\ pureB

\* C11: Merge override.  After A.mergeIn(B) on two trees built by add calls,
\* A.get(k) returns B's value for every key k that A and B both held with
\* different values, at the root or below it.
C11_MergeOverride ==
  MergedBuilt =>
    \A k \in Keys :
      \A va \in ValsUnder(last.pre.node, k), vb \in ValsUnder(B.node, k) :
        va # vb => get(A, k) = vb

\* C12: Merge equals union build.  After A.mergeIn(B) on two trees built by
\* add calls, A's root CID is the root CID of a tree built from create by
\* add calls from the union of the two key sets with B's value for the keys
\* of B.
C12_MergeEqualsUnionBuild ==
  MergedBuilt =>
    \E order \in Orderings(AddedKeys(addedA)) :
      BuildFrom(create(0), order, addedA, 1).cid = A.cid

\* every node of the tree satisfies the layer and the ordering invariant
WellFormed(h) ==
  \A nz \in Reach(h.node, h.zeros) :
    /\ Ordered(nz[1])
    /\ \A i \in 1..Len(nz[1]) : IsLeaf(nz[1][i]) => zerosOf[nz[1][i].key] = nz[2]

\* C19: mergeIn loses no key.  After A.mergeIn(B) on two trees of one layer
\* that satisfy the layer and ordering invariants, A.get returns B's value
\* for every key B.get returned, and A's earlier value for every key that
\* A.get returned and B.get did not, keys below the root included.
C19_MergeLosesNoKey ==
  (last.op = "mergeIn" /\ WellFormed(last.pre) /\ WellFormed(B)) =>
    \A k \in Keys :
      /\ get(B, k) # Null => get(A, k) = get(B, k)
      /\ (get(B, k) = Null /\ get(last.pre, k) # Null) => get(A, k) = get(last.pre, k)

\* every subtree pointer of every block of S refers to a block of S
Closed(S) ==
  \A c \in S : \A i \in 1..Len(BlockOf(c)) : IsTree(BlockOf(c)[i]) => BlockOf(c)[i] \in S

\* the store after the first n store calls of a call that starts from store
StoreAfter(lg, n) == store \cup Puts(SubSeq(lg, 1, n))

\* C13: Referential integrity of the store.  Between calls every subtree
\* pointer in a block of the store refers to a block of the store and each
\* handle's cid is in the store; within an add, edit or mergeIn call (and the
\* splitAround calls it makes) the same holds of the store after each put,
\* and every get reads a block that is then in the store.
C13_ReferentialIntegrity ==
  /\ [](Closed(store) /\ A.cid \in store /\ B.cid \in store)
  /\ [][\A n \in 1..Len(log') :
          /\ Closed(StoreAfter(log', n))
          /\ log'[n].op = "get" => log'[n].cid \in StoreAfter(log', n - 1)]_vars

\* an add that split a subtree: it put the halves, then the root over them
C13_Witness ==
  /\ last.op = "add"
  /\ last.err = ""
  /\ Cardinality({n \in 1..Len(log) : log[n].op = "put"}) >= 4
  /\ \E n \in 1..Len(log) : log[n].op = "get"
  /\ \E i \in 1..Len(A.node) : IsTree(A.node[i]) /\ A.node[i] \in Puts(log)

\* the subtree pointers of the node stored under cid
PointersOf(cid) ==
  {BlockOf(cid)[i] : i \in {j \in 1..Len(BlockOf(cid)) : IsTree(BlockOf(cid)[j])}}

\* C14 as stated: bottom-up persistence order.  Within one call no put of a
\* node comes before a put of a node of a deeper layer.
C14_DeeperPutsFirst ==
  \A i, j \in 1..Len(log) :
    (i < j /\ log[i].op = "put" /\ log[j].op = "put") => log[i].zeros <= log[j].zeros

\* C14, amended: within one call a node is put only when every node it
\* points to is in the store, so the put of a parent follows the puts of its
\* children; puts are not otherwise ordered by layer (add puts the empty
\* node it creates, and splitAround its two halves, before the puts made
\* below them).
C14_ChildrenPutFirst ==
  [][\A n \in 1..Len(log') :
       log'[n].op = "put" => PointersOf(log'[n].cid) \subseteq StoreAfter(log', n - 1)]_vars

\* an add put a node before a node of a deeper layer, and put a node that
\* points to a node put earlier in the same call
C14_Witness ==
  /\ last.op = "add"
  /\ last.err = ""
  /\ \E i, m \in 1..Len(log) :
       i < m /\ log[i].op = "put" /\ log[m].op = "put" /\ log[i].zeros > log[m].zeros
  /\ \E j, n \in 1..Len(log) :
       j < n /\ log[j].op = "put" /\ log[n].op = "put" /\ log[j].cid \in PointersOf(log[n].cid)

\* the keys of the tree a split returned on one side (none for null)
KeysOfSide(side) == IF Len(side) = 0 THEN {} ELSE KeysUnder(BlockOf(side[1]))

\* C15: splitAround partition.  For a tree that satisfies the layer and
\* ordering invariants and a key k it does not hold, splitAround(k) returns
\* a left tree holding exactly the keys below k and a right tree holding
\* exactly the keys above k, also when k falls within the key range of a
\* subtree pointer that is the node's last entry.
C15_SplitPartition ==
  WellFormed(A) =>
    \A k \in Keys \ KeysUnder(A.node) :
      /\ KeysOfSide(splitAround(A, k).left) = {x \in KeysUnder(A.node) : x < k}
      /\ KeysOfSide(splitAround(A, k).right) = {x \in KeysUnder(A.node) : x > k}

\* C16: No empty nodes after a mutation.  After one or more add calls on a
\* created tree no node reachable from the root, the root included, is empty;
\* this covers a first add of a key of a layer above 0.
C16_NoEmptyNodes ==
  (pureA /\ AddedKeys(addedA) # {}) =>
    \A nz \in Reach(A.node, A.zeros) : Len(nz[1]) > 0

\* the keys walk passes to its visitor, in order, without the nulls
WalkedKeys(h) ==
  LET w == walk(h)
      F[i \in 0..Len(w)] ==
        IF i = 0 THEN <<>>
        ELSE IF w[i][2] = Null THEN F[i - 1] ELSE Append(F[i - 1], w[i][2])
  IN F[Len(w)]

\* C17: walk is an in-order traversal.  After add calls with distinct keys
\* the keys walk passes to its visitor are the added keys, each exactly once,
\* in strictly ascending order.
C17_WalkInOrder ==
  pureA =>
    /\ {WalkedKeys(A)[i] : i \in 1..Len(WalkedKeys(A))} = AddedKeys(addedA)
    /\ \A i, j \in 1..Len(WalkedKeys(A)) : i < j => WalkedKeys(A)[i] < WalkedKeys(A)[j]

\* C18: Handles do not share mutable state.  After A.mergeIn(B) a call on A
\* leaves B's node, cid and layer as they were, so B.cid still addresses
\* B.node and B.get returns B's values.
C18_NoSharedState ==
  [][last'.on = "A" =>
       /\ B' = B
       /\ \A k \in Keys : get(B', k) = get(B, k)]_vars

\* the lowest layer of the handle and of the handles its call loaded or created
LowestLayer(h, lg) ==
  LET S == {h.zeros} \cup {lg[n].zeros : n \in 1..Len(lg)}
  IN CHOOSE z \in S : \A y \in S : z <= y

\* the nesting of the calls that made the store calls lg, each nested call
\* being made on a handle one layer below its caller's
NestingOf(h, lg) == h.zeros - LowestLayer(h, lg) + 1

\* C20: Bounded descent.  Every add, get, edit, splitAround and walk call
\* returns after at most handle.layer + 1 nested calls, no store call loads
\* or creates a node at a negative layer, and no node of layer 0 holds a
\* subtree pointer.
C20_BoundedDescent ==
  /\ \A n \in 1..Len(log) : log[n].zeros >= 0
  /\ \A h \in {A, B} :
       /\ \A nz \in Reach(h.node, h.zeros) :
            nz[2] >= 0 /\ (nz[2] = 0 => \A i \in 1..Len(nz[1]) : IsLeaf(nz[1][i]))
       /\ walkDepth(h) <= h.zeros + 1
       /\ \A k \in Keys :
            /\ getDepth(h, k) <= h.zeros + 1
            /\ NestingOf(h, splitAround(h, k).log) <= h.zeros + 1
            /\ \A v \in Vals :
                 /\ NestingOf(h, add(h, k, v).log) <= h.zeros + 1
                 /\ NestingOf(h, edit(h, k, v).log) <= h.zeros + 1

\* a layer-2 tree with a leaf at layer 0: get and walk nest 3 deep, and the
\* add that made it reached layer 0
C20_Witness ==
  /\ last.op = "add"
  /\ A.zeros = 2
  /\ walkDepth(A) = 3
  /\ \E k \in Keys : getDepth(A, k) = 3 /\ get(A, k) # Null
  /\ \E n \in 1..Len(log) : log[n].zeros = 0

====
